---------------------------- MODULE Spec2Model ----------------------------
(***************************************************************************)
(* A model of torchtitan/utils.py: the environment overwrite guard         *)
(* (_warn_overwrite_env), distributed initialisation (init_distributed),   *)
(* the process-group timeout adjuster (set_pg_timeouts) run by several     *)
(* ranks, and the two arithmetic helpers (get_num_flop_per_token,          *)
(* get_peak_flops).                                                        *)
(*                                                                         *)
(* Strings are TLA+ strings: \o is concatenation, SubSeq a slice.          *)
(* os.environ is a function whose DOMAIN is the set of variables that are  *)
(* set.  The logger, os.environ stores, os.makedirs and                    *)
(* init_process_group leave one record each in `effects`, in the order in  *)
(* which the process performs them.                                        *)
(***************************************************************************)
EXTENDS Integers, Sequences, FiniteSets, TLC

VARIABLES
    environ,      \* os.environ of the process
    environ0,     \* os.environ when the process started
    effects,      \* warnings, environment stores, makedirs, group start-up, in order
    calls,        \* the _warn_overwrite_env calls made directly, in order
    dirs,         \* directories that exist
    dirs0,        \* directories that existed when the process started
    job_config,   \* the job configuration given to init_distributed
    pg,           \* the default process group of the process
    pc,           \* the line init_distributed is at
    raised,       \* the exception that left init_distributed
    \* set_pg_timeouts, one process per rank
    world_mesh,   \* the device mesh: its ndim and its group per dimension
    timeout,      \* the timeout given to set_pg_timeouts
    rpc,          \* per rank: the line set_pg_timeouts is at
    groups,       \* per rank: the local list `groups`
    nxt,          \* per rank: the index in `groups` the for loop is at
    pg_timeout,   \* per rank: the timeout of each of its process groups
    pg_timeout0,  \* the timeout every group was created with
    set_calls,    \* per rank: the groups given to _set_pg_timeout, in order
    \* the arithmetic helpers
    device_name,  \* argument of get_peak_flops
    num_params,   \* arguments of get_num_flop_per_token
    model_config,
    seq_len,
    fpc,          \* "call" before the function is applied, "returned" after
    ret           \* <<>> before the function returns, <<value>> after

envVars == <<environ, environ0, effects, calls, dirs, dirs0, job_config, pg, pc, raised>>
pgVars == <<world_mesh, timeout, rpc, groups, nxt, pg_timeout, pg_timeout0, set_calls>>
fnVars == <<device_name, num_params, model_config, seq_len, fpc, ret>>
vars == <<envVars, pgVars, fnVars>>

-----------------------------------------------------------------------------
(* Bounds *)

MaxCalls == 3
MaxTraceBufSize == 2
NumRanks == 3
MaxNdim == 2
MaxFrags == 3
MaxParams == 1
MaxLayers == 2
MaxHeads == 4
MaxDim == 16
MaxSeqLen == 1

-----------------------------------------------------------------------------
(* Module constants, utils.py lines 63-67 and 93 *)

TRACE_BUFFER_SIZE == "TORCH_NCCL_TRACE_BUFFER_SIZE"
TRACE_FILE == "TORCH_NCCL_DEBUG_INFO_TEMP_FILE"
DUMP_ON_TIMEOUT == "TORCH_NCCL_DUMP_ON_TIMEOUT"
ASYNC_ERROR_HANDLING == "TORCH_NCCL_ASYNC_ERROR_HANDLING"
SKIP_CLEANUP == "3"
AVOID_RECORD_STREAMS == "TORCH_NCCL_AVOID_RECORD_STREAMS"

EnvKeys == {TRACE_BUFFER_SIZE, TRACE_FILE, DUMP_ON_TIMEOUT, ASYNC_ERROR_HANDLING,
            AVOID_RECORD_STREAMS}

-----------------------------------------------------------------------------
(* Inputs *)

\* Values a variable may hold before the program touches it.
PreVals == {"0", "1"}

\* Every os.environ over the keys K with values in PreVals.
Environs(K) == UNION {[S -> PreVals] : S \in SUBSET K}

TraceBufSizes == (-1 .. MaxTraceBufSize) \cup {10, 20000}
DumpFolders == {"./outputs", "/tmp/job"}
InitTimeouts == {60, 300}

JobConfigs ==
    {[comm |-> [trace_buf_size |-> s, init_timeout_seconds |-> t],
      job |-> [dump_folder |-> f]] :
        s \in TraceBufSizes, t \in InitTimeouts, f \in DumpFolders}

\* What init_process_group and os.makedirs may raise.
PGErrors == {"DistBackendError", "DistStoreError"}
FSErrors == {"PermissionError"}

NoExc == [from |-> "", err |-> ""]
NoPG == [initialized |-> FALSE]

-----------------------------------------------------------------------------
(* Python primitives *)

Digit(d) == SubSeq("0123456789", d + 1, d + 1)

RECURSIVE digits(_)
digits(n) == IF n < 10 THEN Digit(n) ELSE digits(n \div 10) \o Digit(n % 10)

\* str(n) of an int
str(n) == IF n < 0 THEN "-" \o digits(-n) ELSE digits(n)

\* sub in s
In(sub, s) ==
    \E i \in 1 .. (Len(s) - Len(sub) + 1) : SubSeq(s, i, i + Len(sub) - 1) = sub

\* The directories os.makedirs(path) makes sure exist: path and its parents.
Ancestors(path) ==
    {SubSeq(path, 1, j) :
        j \in {k \in 1 .. Len(path) :
                 k = Len(path) \/ SubSeq(path, k + 1, k + 1) = "/"}}

\* os.environ[env] = val
SetItem(env, val) ==
    [k \in (DOMAIN environ) \cup {env} |-> IF k = env THEN val ELSE environ[k]]

WarningEvent(env, old, val) == [op |-> "warning", env |-> env, old |-> old, val |-> val]
SetenvEvent(env, val) == [op |-> "setenv", env |-> env, val |-> val]
MakedirsEvent(path) == [op |-> "makedirs", path |-> path]
InitPGEvent(backend, seconds) ==
    [op |-> "init_process_group", backend |-> backend, timeout |-> seconds]

-----------------------------------------------------------------------------
(* _warn_overwrite_env, lines 26-31 *)

\* line 27: if env in os.environ
ShouldWarn_IfDifferent(env, val) == env \in DOMAIN environ /\ environ[env] # val

ShouldWarn(env, val) == env \in DOMAIN environ

\* line 31 done as os.environ.setdefault(env, val)
StoreEnv_SetDefault(env, val) ==
    IF env \in DOMAIN environ THEN environ ELSE SetItem(env, val)

\* line 31: os.environ[env] = val
StoreEnv(env, val) == SetItem(env, val)

\* The records the call leaves: the warning (lines 28-30), then the store.
WarnOverwriteEffects(env, val) ==
    (IF ShouldWarn(env, val)
       THEN <<WarningEvent(env, environ[env], val)>>
       ELSE <<>>)
    \o <<SetenvEvent(env, val)>>

\* A plain os.environ[env] = val (line 93) leaves the store alone.
DirectStoreEffects(env, val) == <<SetenvEvent(env, val)>>

_warn_overwrite_env(env, val) ==
    /\ effects' = effects \o WarnOverwriteEffects(env, val)
    /\ environ' = StoreEnv(env, val)

-----------------------------------------------------------------------------
(* The components a specification does not exercise stay as they are here. *)

Ranks == 1 .. NumRanks

\* line 57: None represents the 'default' PG, not part of the mesh
None == 0

Mesh(n) == [ndim |-> n, dim_groups |-> [d \in 1 .. n |-> d]]

EnvIdle ==
    /\ environ0 = <<>>
    /\ environ = environ0
    /\ effects = <<>>
    /\ calls = <<>>
    /\ dirs0 = {}
    /\ dirs = {}
    /\ job_config = [comm |-> [trace_buf_size |-> 0, init_timeout_seconds |-> 300],
                     job |-> [dump_folder |-> "./outputs"]]
    /\ pg = NoPG
    /\ pc = "idle"
    /\ raised = NoExc

PGIdle ==
    /\ world_mesh = Mesh(1)
    /\ timeout = 100
    /\ pg_timeout0 = 300
    /\ rpc = [r \in Ranks |-> "idle"]
    /\ groups = [r \in Ranks |-> <<>>]
    /\ nxt = [r \in Ranks |-> 1]
    /\ pg_timeout = [r \in Ranks |-> [g \in {None, 1} |-> pg_timeout0]]
    /\ set_calls = [r \in Ranks |-> <<>>]

FnIdle ==
    /\ device_name = ""
    /\ num_params = 0
    /\ model_config = [n_layers |-> 1, n_heads |-> 1, dim |-> 1]
    /\ seq_len = 0
    /\ fpc = "idle"
    /\ ret = <<>>

-----------------------------------------------------------------------------
(* A process that calls _warn_overwrite_env any number of times *)

Unset == "<unset>"

Held(env) == IF env \in DOMAIN environ THEN environ[env] ELSE Unset

Held0(env) == IF env \in DOMAIN environ0 THEN environ0[env] ELSE Unset

GuardKeys == {TRACE_BUFFER_SIZE, DUMP_ON_TIMEOUT}

InitEnv ==
    /\ environ0 \in Environs(GuardKeys)
    /\ environ = environ0
    /\ effects = <<>>
    /\ calls = <<>>
    /\ dirs0 = {}
    /\ dirs = {}
    /\ job_config = [comm |-> [trace_buf_size |-> 0, init_timeout_seconds |-> 300],
                     job |-> [dump_folder |-> "./outputs"]]
    /\ pg = NoPG
    /\ pc = "idle"
    /\ raised = NoExc
    /\ PGIdle
    /\ FnIdle

CallWarnOverwriteEnv ==
    /\ pc = "idle"
    /\ Len(calls) < MaxCalls
    /\ \E env \in GuardKeys, val \in PreVals :
         /\ _warn_overwrite_env(env, val)
         /\ calls' = Append(calls, [env |-> env, val |-> val, old |-> Held(env)])
    /\ UNCHANGED <<environ0, dirs, dirs0, job_config, pg, pc, raised, pgVars, fnVars>>

NextEnv == CallWarnOverwriteEnv

SpecEnv == InitEnv /\ [][NextEnv]_vars

-----------------------------------------------------------------------------
(* init_distributed, lines 70-93 *)

\* line 79 written as >= 0
FlightRecorderEnabled_GE(cfg) == cfg.comm.trace_buf_size >= 0

\* line 79: if job_config.comm.trace_buf_size > 0
FlightRecorderEnabled(cfg) == cfg.comm.trace_buf_size > 0

\* line 82: dump_dir = f"{job_config.job.dump_folder}/comm_trace"
dump_dir(cfg) == cfg.job.dump_folder \o "/comm_trace"

\* line 84: f"{dump_dir}/rank_"
trace_file(cfg) == dump_dir(cfg) \o "/rank_"

InitDist ==
    /\ job_config \in JobConfigs
    /\ environ0 \in Environs(EnvKeys)
    /\ environ = environ0
    /\ effects = <<>>
    /\ calls = <<>>
    /\ dirs0 \in {{}, Ancestors(dump_dir(job_config))}
    /\ dirs = dirs0
    /\ pg = NoPG
    /\ pc = "L75"
    /\ raised = NoExc
    /\ PGIdle
    /\ FnIdle

\* line 75 with the store done directly
ForceAsyncErrorHandling_Direct ==
    /\ pc = "L75"
    /\ environ' = SetItem(ASYNC_ERROR_HANDLING, SKIP_CLEANUP)
    /\ effects' = effects \o DirectStoreEffects(ASYNC_ERROR_HANDLING, SKIP_CLEANUP)
    /\ pc' = "L78"
    /\ UNCHANGED <<environ0, calls, dirs, dirs0, job_config, pg, raised, pgVars, fnVars>>

\* line 75
ForceAsyncErrorHandling ==
    /\ pc = "L75"
    /\ _warn_overwrite_env(ASYNC_ERROR_HANDLING, SKIP_CLEANUP)
    /\ pc' = "L78"
    /\ UNCHANGED <<environ0, calls, dirs, dirs0, job_config, pg, raised, pgVars, fnVars>>

\* lines 78-79
SetTraceBufferSize ==
    /\ pc = "L78"
    /\ _warn_overwrite_env(TRACE_BUFFER_SIZE, str(job_config.comm.trace_buf_size))
    /\ pc' = IF FlightRecorderEnabled(job_config) THEN "L81" ELSE "L86"
    /\ UNCHANGED <<environ0, calls, dirs, dirs0, job_config, pg, raised, pgVars, fnVars>>

\* line 81
EnableDumpOnTimeout ==
    /\ pc = "L81"
    /\ _warn_overwrite_env(DUMP_ON_TIMEOUT, "1")
    /\ pc' = "L83"
    /\ UNCHANGED <<environ0, calls, dirs, dirs0, job_config, pg, raised, pgVars, fnVars>>

\* lines 82-83: os.makedirs(dump_dir, exist_ok=True)
MakeDumpDir ==
    /\ pc = "L83"
    /\ dirs' = dirs \cup Ancestors(dump_dir(job_config))
    /\ effects' = Append(effects, MakedirsEvent(dump_dir(job_config)))
    /\ pc' = "L84"
    /\ UNCHANGED <<environ, environ0, calls, dirs0, job_config, pg, raised, pgVars, fnVars>>

\* lines 82-83 when os.makedirs raises: some of the parents may have been made.
MakeDumpDirFails ==
    /\ pc = "L83"
    /\ dump_dir(job_config) \notin dirs
    /\ \E e \in FSErrors, n \in 0 .. (Len(dump_dir(job_config)) - 1) :
         /\ raised' = [from |-> "makedirs", err |-> e]
         /\ dirs' = dirs \cup {a \in Ancestors(dump_dir(job_config)) : Len(a) <= n}
    /\ pc' = "raised"
    /\ UNCHANGED <<environ, environ0, effects, calls, dirs0, job_config, pg, pgVars, fnVars>>

\* line 84
SetTraceFile ==
    /\ pc = "L84"
    /\ _warn_overwrite_env(TRACE_FILE, trace_file(job_config))
    /\ pc' = "L86"
    /\ UNCHANGED <<environ0, calls, dirs, dirs0, job_config, pg, raised, pgVars, fnVars>>

\* lines 86-88 with the memory flag stored before the group is started
InitProcessGroup_FlagFirst ==
    /\ pc = "L86"
    /\ environ' = SetItem(AVOID_RECORD_STREAMS, "1")
    /\ effects' = effects \o DirectStoreEffects(AVOID_RECORD_STREAMS, "1")
                          \o <<InitPGEvent("nccl", job_config.comm.init_timeout_seconds)>>
    /\ pg' = [initialized |-> TRUE, backend |-> "nccl",
              timeout |-> job_config.comm.init_timeout_seconds]
    /\ pc' = "returned"
    /\ UNCHANGED <<environ0, calls, dirs, dirs0, job_config, raised, pgVars, fnVars>>

\* lines 86-88: init_process_group("nccl", timeout=timedelta(seconds=...))
InitProcessGroup ==
    /\ pc = "L86"
    /\ pg' = [initialized |-> TRUE, backend |-> "nccl",
              timeout |-> job_config.comm.init_timeout_seconds]
    /\ effects' = Append(effects,
                         InitPGEvent("nccl", job_config.comm.init_timeout_seconds))
    /\ pc' = "L93"
    /\ UNCHANGED <<environ, environ0, calls, dirs, dirs0, job_config, raised, pgVars, fnVars>>

\* lines 86-88 with the environment restored when start-up fails
InitProcessGroupFails_Rollback ==
    /\ pc = "L86"
    /\ \E e \in PGErrors : raised' = [from |-> "init_process_group", err |-> e]
    /\ environ' = environ0
    /\ pc' = "raised"
    /\ UNCHANGED <<environ0, effects, calls, dirs, dirs0, job_config, pg, pgVars, fnVars>>

\* lines 86-88 when init_process_group raises: nothing catches it.
InitProcessGroupFails ==
    /\ pc = "L86"
    /\ \E e \in PGErrors : raised' = [from |-> "init_process_group", err |-> e]
    /\ pc' = "raised"
    /\ UNCHANGED <<environ, environ0, effects, calls, dirs, dirs0, job_config, pg, pgVars, fnVars>>

\* line 93: os.environ["TORCH_NCCL_AVOID_RECORD_STREAMS"] = "1"
AvoidRecordStreams ==
    /\ pc = "L93"
    /\ environ' = SetItem(AVOID_RECORD_STREAMS, "1")
    /\ effects' = effects \o DirectStoreEffects(AVOID_RECORD_STREAMS, "1")
    /\ pc' = "returned"
    /\ UNCHANGED <<environ0, calls, dirs, dirs0, job_config, pg, raised, pgVars, fnVars>>

NextDist ==
    \/ ForceAsyncErrorHandling
    \/ SetTraceBufferSize
    \/ EnableDumpOnTimeout
    \/ MakeDumpDir
    \/ MakeDumpDirFails
    \/ SetTraceFile
    \/ InitProcessGroup
    \/ InitProcessGroupFails
    \/ AvoidRecordStreams

SpecDist == InitDist /\ [][NextDist]_vars

-----------------------------------------------------------------------------
(* Properties of _warn_overwrite_env *)

\* The direct calls made on env, and the warnings logged about env, in order.
CallsOn(env) ==
    LET on(c) == c.env = env IN SelectSeq(calls, on)

WarningsFor(env) ==
    LET about(e) == e.op = "warning" /\ e.env = env IN SelectSeq(effects, about)

Overwrites(cs) ==
    LET wasSet(c) == c.old # Unset IN SelectSeq(cs, wasSet)

\* C3: after every call the variable holds the value of that call (the last
\* writer wins), and when every call passes a value different from the one
\* held, there is exactly one warning per overwrite: none for a first call on
\* an unset variable, one for each later call.
C3_LastWriterWins ==
    \A env \in GuardKeys :
        LET cs == CallsOn(env)
            ws == WarningsFor(env)
        IN  /\ cs # <<>> => Held(env) = cs[Len(cs)].val
            /\ cs = <<>> => Held(env) = Held0(env)
            /\ (\A i \in 1 .. Len(cs) : cs[i].old # cs[i].val)
                 => Len(ws) = Cardinality({i \in 1 .. Len(cs) : cs[i].old # Unset})

\* A variable that was unset, set twice with different values: one warning.
C3_Witness ==
    \E env \in GuardKeys :
        LET cs == CallsOn(env)
        IN  /\ env \notin DOMAIN environ0
            /\ Len(cs) = 2
            /\ cs[1].val # cs[2].val
            /\ Len(WarningsFor(env)) = 1
            /\ environ[env] = cs[2].val

\* C4 as stated: a warning is logged exactly when the variable is already set
\* to a value different from val, and the variable is set to val.
C4_WarnsOnlyIfDifferent ==
    \A env \in GuardKeys :
        LET cs == CallsOn(env)
        IN  /\ cs # <<>> => Held(env) = cs[Len(cs)].val
            /\ Len(WarningsFor(env)) =
                 Cardinality({i \in 1 .. Len(cs) :
                                cs[i].old # Unset /\ cs[i].old # cs[i].val})

\* C4 amended: a warning naming the old and the new value is logged exactly
\* when the variable is already set, whatever value it holds (also when it
\* already holds val); a call on an unset variable logs none; in every case
\* the variable is set to val.
C4_WarnsIffSet ==
    \A env \in GuardKeys :
        LET cs == CallsOn(env)
            ws == WarningsFor(env)
            ov == Overwrites(cs)
        IN  /\ cs # <<>> => Held(env) = cs[Len(cs)].val
            /\ Len(ws) = Len(ov)
            /\ \A j \in 1 .. Len(ov) :
                 ws[j] = [op |-> "warning", env |-> env,
                          old |-> ov[j].old, val |-> ov[j].val]

\* A call passing the value the variable already holds, and its warning.
C4_Witness ==
    \E i \in 1 .. Len(calls) :
        /\ calls[i].old = calls[i].val
        /\ \E j \in 1 .. Len(effects) :
             effects[j] = [op |-> "warning", env |-> calls[i].env,
                           old |-> calls[i].val, val |-> calls[i].val]

-----------------------------------------------------------------------------
(* Properties of init_distributed *)

trace_buf_size == job_config.comm.trace_buf_size

\* What the process did to the outside world, the warnings left out.
Acts ==
    LET act(e) == e.op # "warning" IN SelectSeq(effects, act)

IsPrefix(s, t) == Len(s) <= Len(t) /\ \A i \in 1 .. Len(s) : s[i] = t[i]

\* The variable of the i-th effect was set when that effect happened.
WasSet(i) ==
    \/ effects[i].env \in DOMAIN environ0
    \/ \E j \in 1 .. (i - 1) :
         effects[j].op = "setenv" /\ effects[j].env = effects[i].env

\* The i-th effect, a store, comes right after the warning about it.
Warned(i) ==
    /\ i > 1
    /\ effects[i - 1].op = "warning"
    /\ effects[i - 1].env = effects[i].env
    /\ effects[i - 1].val = effects[i].val
    /\ effects[i - 1].old = Held0(effects[i].env)

ExpectedActs ==
    <<[op |-> "setenv", env |-> "TORCH_NCCL_ASYNC_ERROR_HANDLING", val |-> "3"],
      [op |-> "setenv", env |-> "TORCH_NCCL_TRACE_BUFFER_SIZE",
       val |-> ToString(trace_buf_size)]>>
    \o (IF trace_buf_size > 0
          THEN <<[op |-> "setenv", env |-> "TORCH_NCCL_DUMP_ON_TIMEOUT", val |-> "1"],
                 [op |-> "makedirs",
                  path |-> job_config.job.dump_folder \o "/comm_trace"],
                 [op |-> "setenv", env |-> "TORCH_NCCL_DEBUG_INFO_TEMP_FILE",
                  val |-> job_config.job.dump_folder \o "/comm_trace/rank_"]>>
          ELSE <<>>)
    \o <<[op |-> "init_process_group", backend |-> "nccl",
          timeout |-> job_config.comm.init_timeout_seconds],
         [op |-> "setenv", env |-> "TORCH_NCCL_AVOID_RECORD_STREAMS", val |-> "1"]>>

\* C6: the side effects happen in a fixed order: async error handling "3",
\* trace buffer size, then (when enabled) dump on timeout, the dump directory
\* and the trace file, then the start of the default group with backend "nccl"
\* and the configured timeout, and the memory flag "1" only after that.
C6_FixedOrder ==
    /\ IsPrefix(Acts, ExpectedActs)
    /\ pc = "returned" => Acts = ExpectedActs
    /\ pg.initialized =>
         /\ pg.backend = "nccl"
         /\ pg.timeout = job_config.comm.init_timeout_seconds
         /\ \E i \in 1 .. Len(Acts) : Acts[i].op = "init_process_group"

\* A complete run with the flight recorder enabled: all seven effects.
C6_Witness ==
    /\ pc = "returned"
    /\ trace_buf_size > 0
    /\ Len(Acts) = 7
    /\ pg.initialized

\* C7: when init_process_group raises, the exception leaves init_distributed
\* as raised, the variables written before it keep their new values, and the
\* memory flag is as it was before the call.
C7_NoRollback ==
    raised.from = "init_process_group" =>
        /\ pc = "raised"
        /\ raised.err \in PGErrors
        /\ ~pg.initialized
        /\ Held(ASYNC_ERROR_HANDLING) = "3"
        /\ Held(TRACE_BUFFER_SIZE) = ToString(trace_buf_size)
        /\ trace_buf_size > 0 =>
             /\ Held(DUMP_ON_TIMEOUT) = "1"
             /\ Held(TRACE_FILE) = job_config.job.dump_folder \o "/comm_trace/rank_"
             /\ (job_config.job.dump_folder \o "/comm_trace") \in dirs
        /\ Held(AVOID_RECORD_STREAMS) = Held0(AVOID_RECORD_STREAMS)

\* Start-up failed with the flight recorder enabled; the async mode was "0"
\* before and is "3" now, the memory flag was unset and still is.
C7_Witness ==
    /\ pc = "raised"
    /\ raised.from = "init_process_group"
    /\ trace_buf_size > 0
    /\ Held0(ASYNC_ERROR_HANDLING) = "0"
    /\ Held(ASYNC_ERROR_HANDLING) = "3"
    /\ Held0(DUMP_ON_TIMEOUT) = Unset
    /\ Held(DUMP_ON_TIMEOUT) = "1"
    /\ AVOID_RECORD_STREAMS \notin DOMAIN environ

PastTraceBlock ==
    pc \in {"L86", "L93", "returned"} \/ raised.from = "init_process_group"

Did(e) == \E i \in 1 .. Len(effects) : effects[i] = e

\* C8: dump on timeout is set to "1", <dump_folder>/comm_trace is created and
\* the trace file is set to <dump_folder>/comm_trace/rank_ if and only if the
\* trace buffer size is greater than 0; otherwise the two variables and the
\* directories are left as they were; the async mode and the trace buffer size
\* are set in both cases.
C8_TraceBlockIffPositive ==
    /\ trace_buf_size <= 0 =>
         /\ Held(DUMP_ON_TIMEOUT) = Held0(DUMP_ON_TIMEOUT)
         /\ Held(TRACE_FILE) = Held0(TRACE_FILE)
         /\ dirs = dirs0
         /\ \A i \in 1 .. Len(effects) :
              /\ effects[i].op # "makedirs"
              /\ effects[i].op \in {"setenv", "warning"} =>
                   effects[i].env \notin {DUMP_ON_TIMEOUT, TRACE_FILE}
    /\ PastTraceBlock =>
         /\ Held(ASYNC_ERROR_HANDLING) = "3"
         /\ Held(TRACE_BUFFER_SIZE) = ToString(trace_buf_size)
         /\ trace_buf_size > 0 =>
              /\ Held(DUMP_ON_TIMEOUT) = "1"
              /\ Did([op |-> "setenv", env |-> DUMP_ON_TIMEOUT, val |-> "1"])
              /\ (job_config.job.dump_folder \o "/comm_trace") \in dirs
              /\ Held(TRACE_FILE) = job_config.job.dump_folder \o "/comm_trace/rank_"

\* A complete run with trace buffer size 0: dump on timeout stays "0", the
\* trace file stays unset, no directory is made.
C8_Witness ==
    /\ pc = "returned"
    /\ trace_buf_size = 0
    /\ Held0(DUMP_ON_TIMEOUT) = "0"
    /\ Held(DUMP_ON_TIMEOUT) = "0"
    /\ TRACE_FILE \notin DOMAIN environ
    /\ dirs = {}
    /\ Held(TRACE_BUFFER_SIZE) = "0"

-----------------------------------------------------------------------------
(* set_pg_timeouts, lines 34-60, called once by every rank *)

NewTimeouts == {5, 100}

\* world_mesh.get_group(): the group of a 1-D mesh, the list of the groups of
\* an N-D mesh (one per dimension).
get_group(mesh) == IF mesh.ndim = 1 THEN mesh.dim_groups[1] ELSE mesh.dim_groups

\* lines 53-55 without line 58
groups_of_NoDefault(mesh) ==
    IF mesh.ndim = 1 THEN <<get_group(mesh)>> ELSE get_group(mesh)

\* lines 53-58: the groups of the mesh, then None for the default group
groups_of(mesh) ==
    Append(IF mesh.ndim = 1 THEN <<get_group(mesh)>> ELSE get_group(mesh), None)

\* torch.distributed.barrier() left out: nothing to wait for
AllArrived_NoBarrier == TRUE

\* line 50: torch.distributed.barrier() returns once every rank has called it.
AllArrived == \A q \in Ranks : rpc[q] # "running"

InitPG ==
    /\ world_mesh \in {Mesh(n) : n \in 1 .. MaxNdim}
    /\ timeout \in NewTimeouts
    /\ pg_timeout0 \in InitTimeouts
    /\ rpc = [r \in Ranks |-> "running"]
    /\ groups = [r \in Ranks |-> <<>>]
    /\ nxt = [r \in Ranks |-> 1]
    /\ pg_timeout =
         [r \in Ranks |-> [g \in {None} \cup (1 .. world_mesh.ndim) |-> pg_timeout0]]
    /\ set_calls = [r \in Ranks |-> <<>>]
    /\ EnvIdle
    /\ FnIdle

\* lines 43-50: the rank logs and calls the barrier
EnterBarrier(r) ==
    /\ rpc[r] = "running"
    /\ rpc' = [rpc EXCEPT ![r] = "L50"]
    /\ UNCHANGED <<world_mesh, timeout, groups, nxt, pg_timeout, pg_timeout0, set_calls>>
    /\ UNCHANGED <<envVars, fnVars>>

\* line 50: the barrier returns
BarrierReturns(r) ==
    /\ rpc[r] = "L50"
    /\ AllArrived
    /\ rpc' = [rpc EXCEPT ![r] = "L51"]
    /\ UNCHANGED <<world_mesh, timeout, groups, nxt, pg_timeout, pg_timeout0, set_calls>>
    /\ UNCHANGED <<envVars, fnVars>>

\* line 50: the barrier raises, a rank having stayed away longer than the old
\* timeout allows; nothing catches it.
BarrierRaises(r) ==
    /\ rpc[r] = "L50"
    /\ ~AllArrived
    /\ rpc' = [rpc EXCEPT ![r] = "raised"]
    /\ UNCHANGED <<world_mesh, timeout, groups, nxt, pg_timeout, pg_timeout0, set_calls>>
    /\ UNCHANGED <<envVars, fnVars>>

\* line 51: torch.cuda.synchronize()
CudaSynchronize(r) ==
    /\ rpc[r] = "L51"
    /\ rpc' = [rpc EXCEPT ![r] = "L53"]
    /\ UNCHANGED <<world_mesh, timeout, groups, nxt, pg_timeout, pg_timeout0, set_calls>>
    /\ UNCHANGED <<envVars, fnVars>>

\* lines 53-58
BuildGroups(r) ==
    /\ rpc[r] = "L53"
    /\ groups' = [groups EXCEPT ![r] = groups_of(world_mesh)]
    /\ nxt' = [nxt EXCEPT ![r] = 1]
    /\ rpc' = [rpc EXCEPT ![r] = "L59"]
    /\ UNCHANGED <<world_mesh, timeout, pg_timeout, pg_timeout0, set_calls>>
    /\ UNCHANGED <<envVars, fnVars>>

\* lines 59-60: one turn of the loop, _set_pg_timeout(timeout, group)
SetPGTimeout(r) ==
    /\ rpc[r] = "L59"
    /\ nxt[r] <= Len(groups[r])
    /\ pg_timeout' = [pg_timeout EXCEPT ![r][groups[r][nxt[r]]] = timeout]
    /\ set_calls' = [set_calls EXCEPT ![r] = Append(@, groups[r][nxt[r]])]
    /\ nxt' = [nxt EXCEPT ![r] = @ + 1]
    /\ UNCHANGED <<world_mesh, timeout, rpc, groups, pg_timeout0>>
    /\ UNCHANGED <<envVars, fnVars>>

\* line 59: the loop is over, set_pg_timeouts returns
Return(r) ==
    /\ rpc[r] = "L59"
    /\ nxt[r] > Len(groups[r])
    /\ rpc' = [rpc EXCEPT ![r] = "returned"]
    /\ UNCHANGED <<world_mesh, timeout, groups, nxt, pg_timeout, pg_timeout0, set_calls>>
    /\ UNCHANGED <<envVars, fnVars>>

NextPG ==
    \E r \in Ranks :
        \/ EnterBarrier(r)
        \/ BarrierReturns(r)
        \/ BarrierRaises(r)
        \/ CudaSynchronize(r)
        \/ BuildGroups(r)
        \/ SetPGTimeout(r)
        \/ Return(r)

SpecPG == InitPG /\ [][NextPG]_vars

-----------------------------------------------------------------------------
(* Properties of set_pg_timeouts *)

MeshGroups == {world_mesh.dim_groups[d] : d \in 1 .. world_mesh.ndim}

Changed(r) ==
    \/ set_calls[r] # <<>>
    \/ \E g \in DOMAIN pg_timeout[r] : pg_timeout[r][g] # pg_timeout0

\* C1: no rank changes the timeout of any group, of the mesh or the default
\* one, before every rank has reached the barrier: while some rank has not
\* arrived, every group of every rank still has the old timeout, and no rank
\* is past the barrier.
C1_BarrierBeforeReconfigure ==
    \A r \in Ranks, q \in Ranks :
        rpc[q] = "running" =>
            /\ ~Changed(r)
            /\ rpc[r] \in {"running", "L50", "raised"}

\* One rank has changed a timeout while another has not yet come back from the
\* barrier it has reached.
C1_Witness ==
    \E r \in Ranks, q \in Ranks :
        /\ Changed(r)
        /\ pg_timeout[r][None] = timeout
        /\ rpc[q] = "L50"

Count(seq, x) == Cardinality({i \in 1 .. Len(seq) : seq[i] = x})

\* C2: when set_pg_timeouts returns on a rank, every group of the mesh and the
\* default group have the given timeout, for a 1-D and an N-D mesh; each
\* group of the mesh was set, and the default group was set exactly once.
C2_AllGroupsSet ==
    \A r \in Ranks :
        rpc[r] = "returned" =>
            /\ \A g \in MeshGroups \cup {None} : pg_timeout[r][g] = timeout
            /\ \A g \in MeshGroups : Count(set_calls[r], g) = 1
            /\ Count(set_calls[r], None) = 1
            /\ Len(set_calls[r]) = world_mesh.ndim + 1

\* Every rank has returned, on an N-D mesh.
C2_Witness ==
    /\ world_mesh.ndim > 1
    /\ \A r \in Ranks : rpc[r] = "returned"
    /\ \A r \in Ranks : pg_timeout[r][None] = timeout /\ pg_timeout[r][2] = timeout

-----------------------------------------------------------------------------
(* get_peak_flops, lines 120-134 *)

\* The float literal <n>e12
E12(n) == [mantissa |-> n, exp10 |-> 12]

\* the H100 test made before the A100 test
get_peak_flops_H100First(name) ==
    IF In("H100", name)
      THEN IF In("NVL", name) THEN E12(1979)
           ELSE IF In("PCIe", name) THEN E12(756)
           ELSE E12(989)
      ELSE E12(312)

get_peak_flops(name) ==
    IF In("A100", name)
      THEN E12(312)
      ELSE IF In("H100", name)
             THEN IF In("NVL", name) THEN E12(1979)
                  ELSE IF In("PCIe", name) THEN E12(756)
                  ELSE E12(989)
             ELSE E12(312)

\* Device names: up to MaxFrags of these pieces, one after the other.
Fragments ==
    {"A100", "H100", " SXM", " NVL", " PCIe", "unknown-device", "NVIDIA ",
     "H10", "0", "a100", "PCIE", "-80GB"}

RECURSIVE NamesOf(_)
NamesOf(n) ==
    IF n = 0 THEN {""}
    ELSE LET shorter == NamesOf(n - 1)
         IN  shorter \cup {p \o f : p \in shorter, f \in Fragments}

DeviceNames == NamesOf(MaxFrags)

InitPeak ==
    /\ device_name \in DeviceNames
    /\ num_params = 0
    /\ model_config = [n_layers |-> 1, n_heads |-> 1, dim |-> 1]
    /\ seq_len = 0
    /\ fpc = "call"
    /\ ret = <<>>
    /\ EnvIdle
    /\ PGIdle

CallGetPeakFlops ==
    /\ fpc = "call"
    /\ ret' = <<get_peak_flops(device_name)>>
    /\ fpc' = "returned"
    /\ UNCHANGED <<device_name, num_params, model_config, seq_len>>
    /\ UNCHANGED <<envVars, pgVars>>

NextPeak == CallGetPeakFlops

SpecPeak == InitPeak /\ [][NextPeak]_vars

\* C9: 312e12 when the name contains "A100" (also when it contains "H100"
\* too); otherwise, when it contains "H100": 1979e12 with "NVL", else 756e12
\* with "PCIe", else 989e12; 312e12 for every other name; a value is returned
\* for every name; and the five named examples.
C9_PeakFlopsTable ==
    fpc = "returned" =>
        /\ Len(ret) = 1
        /\ In("A100", device_name) => ret[1] = [mantissa |-> 312, exp10 |-> 12]
        /\ (~In("A100", device_name) /\ In("H100", device_name)) =>
             /\ In("NVL", device_name) => ret[1] = [mantissa |-> 1979, exp10 |-> 12]
             /\ (~In("NVL", device_name) /\ In("PCIe", device_name)) =>
                  ret[1] = [mantissa |-> 756, exp10 |-> 12]
             /\ (~In("NVL", device_name) /\ ~In("PCIe", device_name)) =>
                  ret[1] = [mantissa |-> 989, exp10 |-> 12]
        /\ (~In("A100", device_name) /\ ~In("H100", device_name)) =>
             ret[1] = [mantissa |-> 312, exp10 |-> 12]
        /\ device_name = "A100" => ret[1] = [mantissa |-> 312, exp10 |-> 12]
        /\ device_name = "H100 SXM" => ret[1] = [mantissa |-> 989, exp10 |-> 12]
        /\ device_name = "H100 NVL" => ret[1] = [mantissa |-> 1979, exp10 |-> 12]
        /\ device_name = "H100 PCIe" => ret[1] = [mantissa |-> 756, exp10 |-> 12]
        /\ device_name = "unknown-device" => ret[1] = [mantissa |-> 312, exp10 |-> 12]

\* A name holding both "A100" and "H100", with "NVL": the A100 value.
C9_Witness ==
    /\ fpc = "returned"
    /\ device_name = "H100 NVLA100"
    /\ ret = <<[mantissa |-> 312, exp10 |-> 12]>>

-----------------------------------------------------------------------------
(* get_num_flop_per_token, lines 108-116 *)

\* line 112 rounding up
head_dim_Ceil(cfg) == (cfg.dim + cfg.n_heads - 1) \div cfg.n_heads

\* line 112: model_config.dim // model_config.n_heads
head_dim(cfg) == cfg.dim \div cfg.n_heads

get_num_flop_per_token(params, cfg, t) ==
    LET l == cfg.n_layers
        h == cfg.n_heads
        q == head_dim(cfg)
    IN  6 * params + 12 * l * h * q * t

ModelConfigs ==
    {[n_layers |-> l, n_heads |-> h, dim |-> d] :
        l \in 1 .. MaxLayers, h \in 1 .. MaxHeads, d \in 1 .. MaxDim}

InitFlop ==
    /\ num_params \in (0 .. MaxParams) \cup {1000}
    /\ model_config \in ModelConfigs
    /\ seq_len \in (0 .. MaxSeqLen) \cup {128}
    /\ device_name = ""
    /\ fpc = "call"
    /\ ret = <<>>
    /\ EnvIdle
    /\ PGIdle

CallGetNumFlopPerToken ==
    /\ fpc = "call"
    /\ ret' = <<get_num_flop_per_token(num_params, model_config, seq_len)>>
    /\ fpc' = "returned"
    /\ UNCHANGED <<device_name, num_params, model_config, seq_len>>
    /\ UNCHANGED <<envVars, pgVars>>

NextFlop == CallGetNumFlopPerToken

SpecFlop == InitFlop /\ [][NextFlop]_vars

\* C10: the result is 6*num_params + 12*n_layers*n_heads*headdim*seq_len with
\* headdim the quotient of dim by n_heads rounded down; it is
\* 6*num_params + 12*n_layers*dim*seq_len when n_heads divides dim; and it is
\* 6*1000 + 12*2*4*4*128 for params 1000, layers 2, heads 4, dim 16, seqlen 128.
C10_FlopFormula ==
    fpc = "returned" =>
        LET l == model_config.n_layers
            h == model_config.n_heads
            d == model_config.dim
        IN  /\ \E q \in 0 .. d :
                 /\ q * h <= d
                 /\ d < (q + 1) * h
                 /\ ret = <<6 * num_params + 12 * l * h * q * seq_len>>
            /\ d % h = 0 => ret = <<6 * num_params + 12 * l * d * seq_len>>
            /\ (num_params = 1000 /\ l = 2 /\ h = 4 /\ d = 16 /\ seq_len = 128)
                 => ret = <<6 * 1000 + 12 * 2 * 4 * 4 * 128>>

\* The example of the claim has been computed.
C10_Witness ==
    /\ fpc = "returned"
    /\ num_params = 1000
    /\ model_config = [n_layers |-> 2, n_heads |-> 4, dim |-> 16]
    /\ seq_len = 128
    /\ ret = <<55152>>

=============================================================================
